---- MODULE Spec2Model ----
(***************************************************************************)
(* django_pylibmc.memcached.PyLibMCCache: a cache backend that keeps one   *)
(* pylibmc client per thread, lets timeout 0 mean "never expire", and      *)
(* contains pylibmc errors raised by the cache operations.                 *)
(*                                                                         *)
(* Python values are tagged records, so that values of different Python    *)
(* types can be compared.  Numbers that may be fractional (timeouts) are   *)
(* counted in units of 1/Scale second.                                     *)
(***************************************************************************)
EXTENDS Integers, Sequences, FiniteSets, TLC

VARIABLES
    config,     \* the adapter's attributes set by __init__
    local,      \* self._local: per thread, <<>> or <<handle>> (attribute client)
    clients,    \* every pylibmc client constructed so far, by handle
    pc,         \* per thread: position inside the current cache call
    call,       \* per thread: the current call's operation and arguments
    run,        \* per thread: what the current call has done so far
    norm,       \* one evaluation of _get_memcache_timeout (SpecTimeout)
    cluster     \* the memcached servers: their entries and clock (SpecCluster)

vars == <<config, local, clients, pc, call, run, norm, cluster>>

----------------------------------------------------------------------------
(* Bounds of the model. *)

\* Timeouts are counted in units of 1/Scale second.
Scale == 2
\* Clients constructed in one run of the model.
MaxClients == 3
\* The framework base turns a timeout above this many seconds into an
\* absolute expiry (30 days in the framework; scaled down here).
MonthSeconds == 3
\* Largest value of the clock, time.time(), in seconds.
MaxTime == 2

Threads == {"t1", "t2"}

----------------------------------------------------------------------------
(* Python values. *)

None == [t |-> "none"]
PyBool(b) == [t |-> "bool", b |-> b]
PyStr(s) == [t |-> "str", s |-> s]
PyInt(n) == [t |-> "int", n |-> n]
\* A number counted in 1/Scale: PyNum(Scale) is 1, PyNum(1) is 1/Scale.
PyNum(n) == [t |-> "num", n |-> n]
\* A dict as its set of <<key, value>> items; a list as a sequence.
PyDict(items) == [t |-> "dict", items |-> items]
PyList(items) == [t |-> "list", items |-> items]

\* bool(x), as `if x:` and `x or y` take it.
PyTruthy(x) ==
    CASE x.t = "none" -> FALSE
      [] x.t = "bool" -> x.b
      [] x.t = "num" -> x.n # 0
      [] x.t = "int" -> x.n # 0
      [] x.t = "str" -> x.s # ""
      [] x.t = "dict" -> x.items # {}
      [] x.t = "list" -> x.items # <<>>
      [] OTHER -> TRUE

\* int(x) of a number counted in 1/Scale: truncation towards zero.
PyIntTrunc(n) == IF n >= 0 THEN n \div Scale ELSE -((-n) \div Scale)

\* len(value) is defined for strings; an int has no len().
HasLen(value) == value.t = "str"
PyLen(value) == Len(value.s)

----------------------------------------------------------------------------
(* Exceptions.  pylibmc.ServerError is a subclass of MemcachedError. *)

ServerError == "ServerError"
MemcachedError == "MemcachedError"
TypeError == "TypeError"
KeyFunctionError == "KeyFunctionError"

IsServerError(e) == e = ServerError
IsMemcachedError(e) == e \in {ServerError, MemcachedError}

----------------------------------------------------------------------------
(* __init__: the adapter's configuration. *)

\* os.environ.get(name, default): environ[name] is <<>> or <<value>>.
EnvironGet(environ, name, default) ==
    IF environ[name] # <<>> THEN PyStr(environ[name][1]) ELSE default

\* The attributes __init__ sets, the framework base's included: _servers,
\* _options (params' OPTIONS, None when absent) and default_timeout
\* (params' TIMEOUT in seconds, kept in 1/Scale).
Construct(server, params, username, password, environ) ==
    [binary |-> IF params.BINARY THEN 1 ELSE 0,
     username |-> EnvironGet(environ, "MEMCACHE_USERNAME", username),
     password |-> EnvironGet(environ, "MEMCACHE_PASSWORD", password),
     servers |-> IF environ["MEMCACHE_SERVERS"] # <<>>
                 THEN environ["MEMCACHE_SERVERS"] ELSE server,
     min_compress_len |-> params.MIN_COMPRESS_LEN,
     options |-> params.OPTIONS,
     default_timeout |-> params.TIMEOUT * Scale]

NoEnviron ==
    [MEMCACHE_USERNAME |-> <<>>, MEMCACHE_PASSWORD |-> <<>>, MEMCACHE_SERVERS |-> <<>>]

Behaviors == PyDict({<<"tcp_nodelay", PyBool(TRUE)>>})

\* The constructions the model starts from: text protocol without
\* credentials or behaviors; binary protocol with both credentials, with
\* behaviors, and with the servers taken from the environment.
Constructions ==
    { Construct(<<"10.0.0.1:11211">>,
                [BINARY |-> FALSE, MIN_COMPRESS_LEN |-> 0, OPTIONS |-> None, TIMEOUT |-> 2],
                None, None, NoEnviron),
      Construct(<<"10.0.0.1:11211">>,
                [BINARY |-> TRUE, MIN_COMPRESS_LEN |-> 1, OPTIONS |-> Behaviors, TIMEOUT |-> 2],
                PyStr("user"), PyStr("secret"),
                [NoEnviron EXCEPT !["MEMCACHE_SERVERS"] =
                                      <<"10.0.0.1:11211", "10.0.0.2:11211">>]) }

----------------------------------------------------------------------------
(* _get_memcache_timeout. *)

\* The framework base's rule, which line 72 calls: an unset or zero timeout
\* becomes the default; a timeout of more than MonthSeconds becomes an
\* absolute time.  timeout is a Python value, default_timeout and the
\* result are counted in 1/Scale, time is in seconds.
BaseGetMemcacheTimeout(timeout, default_timeout, time) ==
    LET t == IF PyTruthy(timeout) THEN timeout.n ELSE default_timeout
    IN  IF t > MonthSeconds * Scale THEN t + time * Scale ELSE t

\* Mutant: the override without its special case for 0.
get_memcache_timeout_base(timeout, default_timeout, time) ==
    PyIntTrunc(BaseGetMemcacheTimeout(timeout, default_timeout, time))

\* The override: seconds handed to the backing client.
get_memcache_timeout(timeout, default_timeout, time) ==
    IF timeout.t = "num" /\ timeout.n = 0
    THEN PyIntTrunc(timeout.n)
    ELSE PyIntTrunc(BaseGetMemcacheTimeout(timeout, default_timeout, time))

----------------------------------------------------------------------------
(* The log entries of the except clauses, and the except clauses. *)

\* An entry: the format, and the arguments it is formatted with (each <<>>
\* when the entry has no such argument).
LogServerError(key, value) ==
    [level |-> "error", fmt |-> "ServerError saving %s (%d bytes)",
     key |-> <<key>>, bytes |-> <<PyLen(value)>>, exc |-> <<>>]
LogMemcachedError(e) ==
    [level |-> "error", fmt |-> "MemcachedError: %s",
     key |-> <<>>, bytes |-> <<>>, exc |-> <<e>>]

\* How a call ends: it returns a value or raises; with the entries it logged.
Returned(value, logs) == [kind |-> "return", value |-> value, exc |-> "", logs |-> logs]
Raised(e, logs) == [kind |-> "raise", value |-> None, exc |-> e, logs |-> logs]

\* add's and set's except clauses, for exception e raised in the try block;
\* key is the made key.  The first clause evaluates len(value) before it
\* logs; an exception raised inside a clause is not caught by the next one.
\* Mutant: the first clause logs and falls through to the second.
add_except_twice(key, value, e) ==
    IF IsServerError(e)
    THEN IF HasLen(value)
         THEN Returned(PyBool(FALSE), <<LogServerError(key, value), LogMemcachedError(e)>>)
         ELSE Raised(TypeError, <<>>)
    ELSE IF IsMemcachedError(e)
         THEN Returned(PyBool(FALSE), <<LogMemcachedError(e)>>)
         ELSE Raised(e, <<>>)

add_except(key, value, e) ==
    IF IsServerError(e)
    THEN IF HasLen(value)
         THEN Returned(PyBool(FALSE), <<LogServerError(key, value)>>)
         ELSE Raised(TypeError, <<>>)
    ELSE IF IsMemcachedError(e)
         THEN Returned(PyBool(FALSE), <<LogMemcachedError(e)>>)
         ELSE Raised(e, <<>>)

\* Mutant: set without its clause for ServerError.
set_except_generic(key, value, e) ==
    IF IsMemcachedError(e)
    THEN Returned(PyBool(FALSE), <<LogMemcachedError(e)>>)
    ELSE Raised(e, <<>>)

set_except(key, value, e) ==
    IF IsServerError(e)
    THEN IF HasLen(value)
         THEN Returned(PyBool(FALSE), <<LogServerError(key, value)>>)
         ELSE Raised(TypeError, <<>>)
    ELSE IF IsMemcachedError(e)
         THEN Returned(PyBool(FALSE), <<LogMemcachedError(e)>>)
         ELSE Raised(e, <<>>)

\* Mutant: get with a bare except.
get_except_all(default, e) == Returned(default, <<LogMemcachedError(e)>>)

\* The except clause of get, delete, get_many, set_many, delete_many.
get_except(default, e) ==
    IF IsMemcachedError(e)
    THEN Returned(default, <<LogMemcachedError(e)>>) ELSE Raised(e, <<>>)

delete_except(e) ==
    IF IsMemcachedError(e)
    THEN Returned(PyBool(FALSE), <<LogMemcachedError(e)>>) ELSE Raised(e, <<>>)

get_many_except(e) ==
    IF IsMemcachedError(e)
    THEN Returned(PyDict({}), <<LogMemcachedError(e)>>) ELSE Raised(e, <<>>)

set_many_except(e) ==
    IF IsMemcachedError(e)
    THEN Returned(PyBool(FALSE), <<LogMemcachedError(e)>>) ELSE Raised(e, <<>>)

delete_many_except(e) ==
    IF IsMemcachedError(e)
    THEN Returned(PyBool(FALSE), <<LogMemcachedError(e)>>) ELSE Raised(e, <<>>)

\* What exception e, raised inside the try block of call c, becomes.
Except(c, key, e) ==
    CASE c.op = "add" -> add_except(key, c.value, e)
      [] c.op = "set" -> set_except(key, c.value, e)
      [] c.op = "get" -> get_except(c.default, e)
      [] c.op = "delete" -> delete_except(e)
      [] c.op = "get_many" -> get_many_except(e)
      [] c.op = "set_many" -> set_many_except(e)
      [] c.op = "delete_many" -> delete_many_except(e)

----------------------------------------------------------------------------
(* The inputs of the cache calls. *)

\* A call: the operation and its arguments (those it does not take are
\* None or empty).
Call(o, k, ks, v, d, tm, df) ==
    [op |-> o, key |-> k, keys |-> ks, value |-> v, data |-> d,
     timeout |-> tm, default |-> df]
NoCall == Call("", "", <<>>, None, <<>>, None, None)

\* make_key raises for BadKey (a key the key function rejects).
BadKey == "bad"
Timeouts == {None, PyNum(0), PyNum(Scale)}
Defaults == {None, PyStr("d")}
KeyLists == {<<"a", "b">>}
\* The value and timeout of an add or a set: a string with every timeout,
\* and a value that has no len().
Stores == {<<PyStr("v"), tm>> : tm \in Timeouts} \cup {<<PyInt(5), PyNum(0)>>}
Mapping == <<<<"a", PyStr("v")>>, <<"b", PyInt(5)>>>>

AddCalls ==
    {Call("add", "a", <<>>, st[1], <<>>, st[2], None) : st \in Stores}
    \cup {Call("add", BadKey, <<>>, PyStr("v"), <<>>, None, None)}
SetCalls ==
    {Call("set", "a", <<>>, st[1], <<>>, st[2], None) : st \in Stores}
    \cup {Call("set", BadKey, <<>>, PyStr("v"), <<>>, None, None)}
GetCalls ==
    {Call("get", k, <<>>, None, <<>>, None, df) : k \in {"a"}, df \in Defaults}
    \cup {Call("get", BadKey, <<>>, None, <<>>, None, None)}
DeleteCalls ==
    {Call("delete", k, <<>>, None, <<>>, None, None) : k \in {"a", BadKey}}
GetManyCalls ==
    {Call("get_many", "", ks, None, <<>>, None, None) : ks \in KeyLists \cup {<<"b">>}}
SetManyCalls ==
    {Call("set_many", "", <<>>, None, Mapping, tm, None) : tm \in Timeouts \ {None}}
DeleteManyCalls ==
    {Call("delete_many", "", ks, None, <<>>, None, None) : ks \in KeyLists}

\* The key-versioning collaborator, with no prefix and version 1.
make_key(key) == ":1:" \o key
MakeKeyRaises(key) == key = BadKey

\* The raw keys a call names, in order, and whether resolving them raises.
RawKeys(c) ==
    CASE c.op \in {"add", "set", "get", "delete"} -> <<c.key>>
      [] c.op \in {"get_many", "delete_many"} -> c.keys
      [] c.op = "set_many" -> [i \in 1..Len(c.data) |-> c.data[i][1]]
      [] OTHER -> <<>>

\* Mutant: the keys are handed on as the caller gave them.
WireKeys_raw(c) == RawKeys(c)

\* The made keys of a call, in the order of its raw keys.
WireKeys(c) == [i \in 1..Len(RawKeys(c)) |-> make_key(RawKeys(c)[i])]
KeysRaise(c) == \E i \in 1..Len(RawKeys(c)) : MakeKeyRaises(RawKeys(c)[i])

IsWrite(c) == c.op \in {"add", "set", "set_many"}

\* What a call has done so far: the made keys, the client the _cache
\* property returned, the exception raised inside its try block ("" when
\* none), the expiry it handed to the backing client (<<>> when none), the
\* minimum compress length it handed over with it (add and set), the
\* backing operations it invoked, its steps in order (Client and behaviors
\* are the construction and the configuration of a client), and how it ended.
NoOutcome == [kind |-> "none", value |-> None, exc |-> "", logs |-> <<>>]
NoRun ==
    [keys |-> <<>>, client |-> <<>>, fault |-> "", expiry |-> <<>>,
     compress |-> <<>>, invoked |-> 0, steps |-> <<>>, out |-> NoOutcome]

\* One evaluation of _get_memcache_timeout: its inputs, and <<result>>.
NoNorm == [timeout |-> None, default_timeout |-> 0, time |-> 0, result |-> <<>>]

\* The servers before anything is stored: no entry under any made key, and
\* the clock at its first second.
StoreKeys == {make_key(k) : k \in {"a", "b"}}
NoCluster == [store |-> [k \in StoreKeys |-> <<>>], now |-> 1]

----------------------------------------------------------------------------
(* The _cache property: the per-thread client. *)

\* Mutant: one attribute dict for all threads (no threading.local).
Slot_shared(t) == "t1"

\* The thread-local attribute dict thread t sees through self._local.
Slot(t) == t

\* Mutant: the lookup never finds the stored client.
cached_client_never(t) == <<>>

\* getattr(self._local, 'client', None), as <<>> or <<handle>>.
cached_client(t) == local[Slot(t)]

\* Mutant: the credentials are never handed to lib.Client.
client_kwargs_anonymous(cfg) == [binary |-> cfg.binary, auth |-> <<>>]

\* The keyword arguments of lib.Client: credentials only when both are set.
client_kwargs(cfg) ==
    [binary |-> cfg.binary,
     auth |-> IF cfg.username # None /\ cfg.password # None
              THEN <<cfg.username.s, cfg.password.s>> ELSE <<>>]

\* The client lib.Client(self._servers, **client_kwargs) constructs, built
\* by thread t; its behaviors are the library's own until they are set.
NewClient(t, cfg) ==
    [builtBy |-> t, servers |-> cfg.servers,
     binary |-> client_kwargs(cfg).binary, auth |-> client_kwargs(cfg).auth,
     behaviors |-> None]

\* Mutant: the behaviors are never set on the client.
Configured_skipped(client, cfg) == client

\* The client as the property stores it: with the options as its
\* behaviors, when there are options.
Configured(client, cfg) ==
    [client EXCEPT !.behaviors = IF PyTruthy(cfg.options) THEN cfg.options ELSE @]

\* Mutant: the client is stored as soon as it is constructed, before its
\* behaviors are set.
StoredOnFault_early(f) == f.ctor = ""

\* Whether the slot is written when constructing or configuring the client
\* raised f: never, the assignment follows both.
StoredOnFault(f) == FALSE

\* Mutant: an except clause that handled a cache fault drops the client.
after_except_reset(slots, t, e) ==
    IF IsMemcachedError(e) THEN [slots EXCEPT ![Slot(t)] = <<>>] ELSE slots

\* self._local after the except clauses of a call of thread t took
\* exception e ("" when none): they log and return, and assign nothing.
after_except(slots, t, e) == slots

\* What constructing and configuring a client may raise: nothing, or
\* lib.Client raises, or, when there are options, setting the behaviors does.
BuildFaults(cfg) ==
    {[ctor |-> "", behaviors |-> ""]} \cup
    {[ctor |-> e, behaviors |-> ""] : e \in {MemcachedError, TypeError}} \cup
    (IF PyTruthy(cfg.options) THEN {[ctor |-> "", behaviors |-> MemcachedError]} ELSE {})

----------------------------------------------------------------------------
(* The backing client and the framework base's method bodies. *)

Result(value) == [value |-> value, exc |-> ""]
Fault(e) == [value |-> None, exc |-> e]

\* What the backing client's operation may do for call c on the made keys:
\* return one of its results, or raise a server-level fault, another
\* pylibmc fault, or an error that is not a cache fault.
BackendOutcomes(c, keys) ==
    {Fault(e) : e \in {ServerError, MemcachedError, TypeError}} \cup
    CASE c.op \in {"add", "delete"} -> {Result(PyBool(b)) : b \in BOOLEAN}
      [] c.op \in {"set", "delete_many"} -> {Result(PyBool(TRUE))}
      [] c.op = "get" -> {Result(None), Result(PyStr("v"))}
      [] c.op = "get_many" ->
             {Result(PyDict({<<keys[i], PyStr("v")>> : i \in found})) :
                 found \in SUBSET (1..Len(keys))}
      [] c.op = "set_many" -> {Result(PyList(<<>>)), Result(PyList(<<keys[1]>>))}

\* The raw key a made key of call c stands for.
RawKeyOf(c, wire) ==
    RawKeys(c)[CHOOSE i \in 1..Len(RawKeys(c)) : make_key(RawKeys(c)[i]) = wire]

\* What the method returns when the backing operation returned value: get
\* turns a miss into the default, get_many names the found values by their
\* raw keys, every other method passes the result on.
Success(c, value) ==
    CASE c.op = "get" -> IF value = None THEN c.default ELSE value
      [] c.op = "get_many" ->
             PyDict({<<RawKeyOf(c, item[1]), item[2]>> : item \in value.items})
      [] OTHER -> value

\* Mutant: get_many's try block returns an empty mapping.
try_return_empty(c, value) == IF c.op = "get_many" THEN PyDict({}) ELSE value

\* What the try block of call c returns when the backing operation (add,
\* set) or the base's method returned value: that value.
try_return(c, value) == value

\* Mutant: a call whose failure was logged invokes the operation again.
AfterTry_retry(out) == IF out.logs # <<>> THEN "acquired" ELSE "done"

\* Where a call goes after its try statement: it has returned or raised.
AfterTry(out) == "done"

----------------------------------------------------------------------------
(* The cache calls, step by step. *)

\* Entering a call makes its keys first: add and set before their try
\* statement, the other methods inside it.
EntryRun(c) ==
    IF KeysRaise(c)
    THEN [NoRun EXCEPT !.steps = <<"make_key">>,
                       !.fault = KeyFunctionError,
                       !.out = IF c.op \in {"add", "set"}
                               THEN Raised(KeyFunctionError, <<>>)
                               ELSE Except(c, "", KeyFunctionError)]
    ELSE [NoRun EXCEPT !.steps = <<"make_key">>, !.keys = WireKeys(c)]
EntryPc(c) == IF KeysRaise(c) THEN "done" ELSE "resolved"

add(t) ==
    /\ pc[t] \in {"idle", "done"}
    /\ \E c \in AddCalls :
         /\ call' = [call EXCEPT ![t] = c]
         /\ run' = [run EXCEPT ![t] = EntryRun(c)]
         /\ pc' = [pc EXCEPT ![t] = EntryPc(c)]
    /\ UNCHANGED <<config, local, clients, norm, cluster>>

get(t) ==
    /\ pc[t] \in {"idle", "done"}
    /\ \E c \in GetCalls :
         /\ call' = [call EXCEPT ![t] = c]
         /\ run' = [run EXCEPT ![t] = EntryRun(c)]
         /\ pc' = [pc EXCEPT ![t] = EntryPc(c)]
    /\ UNCHANGED <<config, local, clients, norm, cluster>>

set(t) ==
    /\ pc[t] \in {"idle", "done"}
    /\ \E c \in SetCalls :
         /\ call' = [call EXCEPT ![t] = c]
         /\ run' = [run EXCEPT ![t] = EntryRun(c)]
         /\ pc' = [pc EXCEPT ![t] = EntryPc(c)]
    /\ UNCHANGED <<config, local, clients, norm, cluster>>

delete(t) ==
    /\ pc[t] \in {"idle", "done"}
    /\ \E c \in DeleteCalls :
         /\ call' = [call EXCEPT ![t] = c]
         /\ run' = [run EXCEPT ![t] = EntryRun(c)]
         /\ pc' = [pc EXCEPT ![t] = EntryPc(c)]
    /\ UNCHANGED <<config, local, clients, norm, cluster>>

get_many(t) ==
    /\ pc[t] \in {"idle", "done"}
    /\ \E c \in GetManyCalls :
         /\ call' = [call EXCEPT ![t] = c]
         /\ run' = [run EXCEPT ![t] = EntryRun(c)]
         /\ pc' = [pc EXCEPT ![t] = EntryPc(c)]
    /\ UNCHANGED <<config, local, clients, norm, cluster>>

set_many(t) ==
    /\ pc[t] \in {"idle", "done"}
    /\ \E c \in SetManyCalls :
         /\ call' = [call EXCEPT ![t] = c]
         /\ run' = [run EXCEPT ![t] = EntryRun(c)]
         /\ pc' = [pc EXCEPT ![t] = EntryPc(c)]
    /\ UNCHANGED <<config, local, clients, norm, cluster>>

delete_many(t) ==
    /\ pc[t] \in {"idle", "done"}
    /\ \E c \in DeleteManyCalls :
         /\ call' = [call EXCEPT ![t] = c]
         /\ run' = [run EXCEPT ![t] = EntryRun(c)]
         /\ pc' = [pc EXCEPT ![t] = EntryPc(c)]
    /\ UNCHANGED <<config, local, clients, norm, cluster>>

\* The _cache property, read inside the try block of thread t's call: the
\* thread's client when it has one; otherwise a client is constructed,
\* configured and stored.  clients records the clients stored; one whose
\* construction or configuration raised is never stored.
cache(t) ==
    /\ pc[t] = "resolved"
    /\ IF cached_client(t) # <<>>
       THEN /\ pc' = [pc EXCEPT ![t] = "acquired"]
            /\ run' = [run EXCEPT ![t] =
                        [@ EXCEPT !.client = cached_client(t),
                                  !.steps = @ \o <<"_cache">>]]
            /\ UNCHANGED <<local, clients>>
       ELSE /\ Len(clients) < MaxClients
            /\ \E f \in BuildFaults(config) :
                 LET e == IF f.ctor # "" THEN f.ctor ELSE f.behaviors
                     handle == Len(clients) + 1
                     built == IF f.ctor # "" \/ ~PyTruthy(config.options)
                              THEN <<"_cache", "Client">>
                              ELSE <<"_cache", "Client", "behaviors">>
                 IN  IF e # ""
                     THEN /\ pc' = [pc EXCEPT ![t] = "done"]
                          /\ run' = [run EXCEPT ![t] =
                                      [@ EXCEPT !.fault = e,
                                                !.steps = @ \o built,
                                                !.out = Except(call[t], run[t].keys[1], e)]]
                          /\ IF StoredOnFault(f)
                             THEN /\ clients' = Append(clients, NewClient(t, config))
                                  /\ local' = after_except(
                                                 [local EXCEPT ![Slot(t)] = <<handle>>], t, e)
                             ELSE /\ clients' = clients
                                  /\ local' = after_except(local, t, e)
                     ELSE /\ clients' = Append(clients,
                                               Configured(NewClient(t, config), config))
                          /\ local' = [local EXCEPT ![Slot(t)] = <<handle>>]
                          /\ pc' = [pc EXCEPT ![t] = "acquired"]
                          /\ run' = [run EXCEPT ![t] =
                                      [@ EXCEPT !.client = <<handle>>,
                                                !.steps = @ \o built]]
    /\ UNCHANGED <<config, call, norm, cluster>>

\* The call with run r after its backing operation, invoked at time time,
\* returned or raised res.
Invoked(r, c, time, res) ==
    [r EXCEPT
       !.fault = res.exc,
       !.expiry = IF IsWrite(c)
                  THEN <<get_memcache_timeout(c.timeout, config.default_timeout, time)>>
                  ELSE <<>>,
       !.compress = IF c.op \in {"add", "set"}
                    THEN <<config.min_compress_len>> ELSE <<>>,
       !.invoked = @ + 1,
       !.steps = @ \o (IF IsWrite(c)
                       THEN <<"_get_memcache_timeout", "backend">>
                       ELSE <<"backend">>),
       !.out = IF res.exc = ""
               THEN Returned(try_return(c, Success(c, res.value)), <<>>)
               ELSE Except(c, r.keys[1], res.exc)]

\* The backing operation is invoked on the acquired client, a write with
\* the timeout _get_memcache_timeout gives; the method returns what the
\* operation returned, or its except clauses take what it raised.
invoke(t) ==
    /\ pc[t] = "acquired"
    /\ \E time \in 1..MaxTime, res \in BackendOutcomes(call[t], run[t].keys) :
         /\ run' = [run EXCEPT ![t] = Invoked(run[t], call[t], time, res)]
         /\ pc' = [pc EXCEPT ![t] = AfterTry(Invoked(run[t], call[t], time, res).out)]
         /\ local' = after_except(local, t, res.exc)
    /\ UNCHANGED <<config, clients, call, norm, cluster>>

Init ==
    /\ config \in Constructions
    /\ local = [t \in Threads |-> <<>>]
    /\ clients = <<>>
    /\ pc = [t \in Threads |-> "idle"]
    /\ call = [t \in Threads |-> NoCall]
    /\ run = [t \in Threads |-> NoRun]
    /\ norm = NoNorm
    /\ cluster = NoCluster

Next ==
    \E t \in Threads :
        \/ add(t)
        \/ get(t)
        \/ set(t)
        \/ delete(t)
        \/ get_many(t)
        \/ set_many(t)
        \/ delete_many(t)
        \/ cache(t)
        \/ invoke(t)

Spec == Init /\ [][Next]_vars

----------------------------------------------------------------------------
(* _get_memcache_timeout alone, over requested timeouts from 0 to beyond   *)
(* the base's threshold in steps of 1/Scale, unset included.               *)

TimeoutInputs == {None} \cup {PyNum(n) : n \in 0..((MonthSeconds + 1) * Scale)}
DefaultInputs == {0, Scale, (MonthSeconds + 1) * Scale}

InitTimeout ==
    /\ config \in Constructions
    /\ local = [t \in Threads |-> <<>>]
    /\ clients = <<>>
    /\ pc = [t \in Threads |-> "idle"]
    /\ call = [t \in Threads |-> NoCall]
    /\ run = [t \in Threads |-> NoRun]
    /\ norm \in [timeout : TimeoutInputs, default_timeout : DefaultInputs,
                 time : 1..MaxTime, result : {<<>>}]
    /\ cluster = NoCluster

normalize ==
    /\ norm.result = <<>>
    /\ norm' = [norm EXCEPT !.result =
                 <<get_memcache_timeout(norm.timeout, norm.default_timeout, norm.time)>>]
    /\ UNCHANGED <<config, local, clients, pc, call, run, cluster>>

SpecTimeout == InitTimeout /\ [][normalize]_vars

----------------------------------------------------------------------------
(* The claims. *)

CacheFaults == {ServerError, MemcachedError}
Ended(t) == pc[t] = "done"

\* The safe default of a call, by operation.
SafeDefault(c) ==
    CASE c.op = "get" -> c.default
      [] c.op = "get_many" -> PyDict({})
      [] OTHER -> PyBool(FALSE)

\* C1: whenever a server-level fault or another backing-client fault is
\* raised inside a call, of any of the seven operations, the call returns
\* its safe default (false; the default for get; an empty mapping for
\* get_many) and raises nothing.
C1_FaultsContained ==
    \A t \in Threads :
        Ended(t) /\ run[t].fault \in CacheFaults =>
            /\ run[t].out.kind = "return"
            /\ run[t].out.value = SafeDefault(call[t])

\* C2: whenever the backing client raises a server-level fault during set
\* or add, whatever the value stored (a value without a length included),
\* the call returns false and raises nothing.
C2_ServerFaultOnWrite ==
    \A t \in Threads :
        Ended(t) /\ call[t].op \in {"add", "set"} /\ run[t].fault = ServerError =>
            /\ run[t].out.kind = "return"
            /\ run[t].out.value = PyBool(FALSE)

\* C3: a failure raised during a call that is neither a server-level fault
\* nor another backing-client fault (a programming error, an error of key
\* resolution) leaves the call as that same exception, with no log entry.
C3_OtherFailuresPropagate ==
    \A t \in Threads :
        Ended(t) /\ run[t].fault # "" /\ run[t].fault \notin CacheFaults =>
            /\ run[t].out.kind = "raise"
            /\ run[t].out.exc = run[t].fault
            /\ run[t].out.logs = <<>>

C3_Witness ==
    \E t \in Threads :
        /\ Ended(t) /\ run[t].fault = TypeError /\ run[t].invoked = 1
        /\ run[t].out = Raised(TypeError, <<>>)
        /\ \E u \in Threads :
             Ended(u) /\ run[u].fault = KeyFunctionError /\ run[u].out.kind = "raise"

\* C4: add, set and set_many called with timeout 0 hand the backing client
\* the expiry 0: not a negative (already expired) value, not the default
\* timeout (which is positive in every construction of the model).
C4_ZeroTimeoutNeverExpires ==
    \A t \in Threads :
        /\ IsWrite(call[t])
        /\ call[t].timeout = PyNum(0)
        /\ run[t].invoked > 0
        => /\ run[t].expiry = <<0>>
           /\ run[t].expiry[1] # PyIntTrunc(config.default_timeout)

C4_Witness ==
    /\ config.default_timeout > 0
    /\ \E t, u \in Threads :
        /\ Ended(t) /\ call[t].op = "set_many" /\ call[t].timeout = PyNum(0)
        /\ run[t].expiry = <<0>>
        /\ Ended(u) /\ call[u].op \in {"add", "set"} /\ call[u].timeout = PyNum(0)
        /\ run[u].expiry = <<0>>

\* C5: the result of _get_memcache_timeout is never negative, and for a
\* requested timeout above 0 (fractions of a second included), or an unset
\* timeout with a positive default, it is positive.
C5_ZeroOnlyForZero ==
    norm.result # <<>> =>
        /\ norm.result[1] >= 0
        /\ (\/ norm.timeout.t = "num" /\ norm.timeout.n > 0
            \/ norm.timeout = None /\ norm.default_timeout > 0)
           => norm.result[1] > 0

\* The content of the slot of thread t: <<>> or <<handle>>.
SlotOf(t) == local[Slot(t)]

\* C6: once a thread's slot holds a client, no step replaces or clears it,
\* every later acquisition by that thread returns that client, and no
\* client is constructed by or for that thread again.
C6_ClientKept ==
    [][\A t \in Threads :
         SlotOf(t) # <<>> =>
             /\ SlotOf(t)' = SlotOf(t)
             /\ pc[t] = "resolved" /\ pc'[t] # "resolved" =>
                    /\ pc'[t] = "acquired"
                    /\ run'[t].client = SlotOf(t)
                    /\ \A i \in 1..Len(run'[t].steps) : run'[t].steps[i] # "Client"
             /\ \A h \in (Len(clients) + 1)..Len(clients') :
                    clients'[h].builtBy # t]_vars

\* A call that acquired the stored client without constructing one, and
\* failed with a contained fault; the slot still holds that client.
C6_Witness ==
    \E t \in Threads :
        /\ Ended(t) /\ run[t].fault \in CacheFaults /\ run[t].invoked = 1
        /\ run[t].client # <<>> /\ run[t].client = SlotOf(t)
        /\ run[t].steps[2] = "_cache"
        /\ \A i \in 1..Len(run[t].steps) : run[t].steps[i] # "Client"

\* C7: under every interleaving, the slot a thread sees and the client its
\* call runs on hold a client that thread built, no two threads see the
\* same client, and a thread's slot changes only in a step of that thread.
C7_Isolation ==
    [][/\ \A t \in Threads :
            /\ cached_client(t)' # <<>> =>
                   clients'[cached_client(t)'[1]].builtBy = t
            /\ run'[t].client # <<>> => clients'[run'[t].client[1]].builtBy = t
       /\ \A t, u \in Threads :
            t # u /\ cached_client(t)' # <<>> => cached_client(t)' # cached_client(u)'
       /\ \A u \in Threads :
            local'[u] # local[u] =>
                /\ pc[u] = "resolved" /\ pc'[u] # pc[u]
                /\ \A t \in Threads \ {u} : pc'[t] = pc[t] /\ run'[t] = run[t]]_vars

\* Both threads hold a client, each its own, and one is inside a call while
\* the other's call has ended.
C7_Witness ==
    \E t, u \in Threads :
        /\ t # u
        /\ cached_client(t) # <<>> /\ cached_client(u) # <<>>
        /\ cached_client(t) # cached_client(u)
        /\ pc[t] = "acquired" /\ run[t].client = cached_client(t)
        /\ Ended(u) /\ run[u].client = cached_client(u)

\* C8: no call invokes the backing operation more than once, a call whose
\* failure was contained included.
C8_NoRetry ==
    \A t \in Threads :
        /\ run[t].invoked <= 1
        /\ Ended(t) /\ run[t].out.logs # <<>> /\ run[t].client # <<>> =>
               run[t].invoked = 1

C8_Witness ==
    \E t \in Threads :
        /\ Ended(t) /\ run[t].fault \in CacheFaults /\ run[t].invoked = 1
        /\ run[t].out.kind = "return" /\ run[t].out.logs # <<>>

\* A call's failure is contained when a cache fault was raised inside it
\* and it returned.
Contained(t) ==
    Ended(t) /\ run[t].fault \in CacheFaults /\ run[t].out.kind = "return"

\* C9: a call whose failure is contained ends with exactly one log entry,
\* of error severity, a server-level fault too; a call in which nothing
\* was raised ends with none; and no entry exists before a call has ended.
C9_OneLogEntry ==
    \A t \in Threads :
        /\ Contained(t) =>
               Len(run[t].out.logs) = 1 /\ run[t].out.logs[1].level = "error"
        /\ Ended(t) /\ run[t].fault = "" => run[t].out.logs = <<>>
        /\ ~Ended(t) => run[t].out.logs = <<>>

C9_Witness ==
    \E t, u \in Threads :
        /\ Contained(t) /\ call[t].op = "add" /\ run[t].fault = ServerError
        /\ Len(run[t].out.logs) = 1
        /\ Ended(u) /\ run[u].fault = "" /\ run[u].invoked = 1 /\ run[u].out.logs = <<>>

\* C10 as stated: every contained failure is logged with the key of the
\* operation, and in add and set also with the payload size.
C10_KeyAlwaysLogged ==
    \A t \in Threads :
        Contained(t) =>
            \A i \in 1..Len(run[t].out.logs) :
                /\ run[t].out.logs[i].key # <<>>
                /\ run[t].out.logs[i].key[1] \in {run[t].keys[k] : k \in 1..Len(run[t].keys)}
                /\ call[t].op \in {"add", "set"} => run[t].out.logs[i].bytes # <<>>

\* C10 as amended: a server-level fault contained in add or set is logged
\* with the made key and the payload size; every other contained failure
\* is logged with the exception alone, without key or payload size.
C10_KeyLoggedForServerFaultOnWrite ==
    \A t \in Threads :
        Contained(t) =>
            /\ run[t].out.logs # <<>>
            /\ \A i \in 1..Len(run[t].out.logs) :
                 IF call[t].op \in {"add", "set"} /\ run[t].fault = ServerError
                 THEN /\ run[t].out.logs[i].key = <<make_key(call[t].key)>>
                      /\ run[t].out.logs[i].bytes = <<PyLen(call[t].value)>>
                 ELSE /\ run[t].out.logs[i].key = <<>>
                      /\ run[t].out.logs[i].bytes = <<>>
                      /\ run[t].out.logs[i].exc = <<run[t].fault>>

C10_Witness ==
    \E t, u \in Threads :
        /\ Contained(t) /\ call[t].op = "set" /\ run[t].fault = ServerError
        /\ run[t].out.logs[1].key = <<":1:a">> /\ run[t].out.logs[1].bytes = <<1>>
        /\ Contained(u) /\ call[u].op = "add" /\ run[u].fault = MemcachedError
        /\ run[u].out.logs[1].key = <<>>

----------------------------------------------------------------------------
(* One thread alone, over constructions that lack a credential or servers. *)

\* Constructions with one credential of the two, and with no server.
PartialConstructions ==
    { Construct(<<"10.0.0.1:11211">>,
                [BINARY |-> TRUE, MIN_COMPRESS_LEN |-> 0, OPTIONS |-> None, TIMEOUT |-> 2],
                PyStr("user"), None, NoEnviron),
      Construct(<<"10.0.0.1:11211">>,
                [BINARY |-> TRUE, MIN_COMPRESS_LEN |-> 0, OPTIONS |-> Behaviors, TIMEOUT |-> 2],
                None, None, [NoEnviron EXCEPT !["MEMCACHE_PASSWORD"] = <<"secret">>]),
      Construct(<<>>,
                [BINARY |-> FALSE, MIN_COMPRESS_LEN |-> 0, OPTIONS |-> None, TIMEOUT |-> 2],
                None, None, NoEnviron) }

InitConfig ==
    /\ config \in Constructions \cup PartialConstructions
    /\ local = [t \in Threads |-> <<>>]
    /\ clients = <<>>
    /\ pc = [t \in Threads |-> "idle"]
    /\ call = [t \in Threads |-> NoCall]
    /\ run = [t \in Threads |-> NoRun]
    /\ norm = NoNorm
    /\ cluster = NoCluster

NextSolo ==
    \E t \in {"t1"} :
        \/ add(t)
        \/ get(t)
        \/ set(t)
        \/ delete(t)
        \/ get_many(t)
        \/ set_many(t)
        \/ delete_many(t)
        \/ cache(t)
        \/ invoke(t)

SpecConfig == InitConfig /\ [][NextSolo]_vars

ConfigurationError == "ConfigurationError"
PartialCredentials(cfg) == (cfg.username = None) # (cfg.password = None)
Misconfigured(cfg) == cfg.servers = <<>> \/ PartialCredentials(cfg)

\* C11: with no server, or with one credential of the two, constructing a
\* client fails with ConfigurationError and no client is stored or used;
\* and no client is ever built without authentication from a
\* configuration that holds one credential.
C11_MisconfigurationRejected ==
    /\ Misconfigured(config) =>
           /\ clients = <<>>
           /\ \A t \in Threads :
                /\ SlotOf(t) = <<>>
                /\ run[t].client = <<>>
                /\ (\E i \in 1..Len(run[t].steps) : run[t].steps[i] = "Client") =>
                       run[t].fault = ConfigurationError
    /\ \A h \in 1..Len(clients) :
           clients[h].auth = <<>> => ~PartialCredentials(config)

----------------------------------------------------------------------------
(* One thread alone against memcached servers that keep what is stored.    *)

\* The last second of the servers' clock.
MaxNow == MaxTime + 2

\* An entry of the servers: the value, the second it expires at (0: never),
\* and the operation and requested timeout of the call that wrote it at
\* second now.
Entry(value, expires, c, now) ==
    [value |-> value, expires |-> expires, op |-> c.op, timeout |-> c.timeout,
     at |-> now]

\* The expiry second of an entry written at now with expiry exp: 0 never
\* expires, more than MonthSeconds is a point in time, less is relative.
ExpiresAt(exp, now) ==
    IF exp = 0 THEN 0 ELSE IF exp > MonthSeconds THEN exp ELSE now + exp

\* Whether the servers still hold the entry of slot e (<<>> or <<entry>>).
Live(e, now) == e # <<>> /\ (e[1].expires = 0 \/ now < e[1].expires)

\* Mutant: add invokes the backing client's set.
backing_operation_set(c) ==
    CASE c.op \in {"add", "set"} -> "set"
      [] c.op = "get" -> "get"
      [] c.op = "delete" -> "delete"
      [] c.op = "get_many" -> "get_multi"
      [] c.op = "set_many" -> "set_multi"
      [] c.op = "delete_many" -> "delete_multi"

\* The operation of the backing client a method invokes.
backing_operation(c) ==
    CASE c.op = "add" -> "add"
      [] c.op = "set" -> "set"
      [] c.op = "get" -> "get"
      [] c.op = "delete" -> "delete"
      [] c.op = "get_many" -> "get_multi"
      [] c.op = "set_many" -> "set_multi"
      [] c.op = "delete_many" -> "delete_multi"

\* What healthy servers holding cl do for operation o of call c on the
\* made keys with expiry exp: the result, and the entries afterwards.
Served(o, c, keys, exp, cl) ==
    LET live(i) == Live(cl.store[keys[i]], cl.now)
        all == 1..Len(keys)
        entry(v) == <<Entry(v, ExpiresAt(exp, cl.now), c, cl.now)>>
    IN  CASE o = "add" ->
                 IF live(1)
                 THEN [res |-> Result(PyBool(FALSE)), store |-> cl.store]
                 ELSE [res |-> Result(PyBool(TRUE)),
                       store |-> [cl.store EXCEPT ![keys[1]] = entry(c.value)]]
          [] o = "set" ->
                 [res |-> Result(PyBool(TRUE)),
                  store |-> [cl.store EXCEPT ![keys[1]] = entry(c.value)]]
          [] o = "get" ->
                 [res |-> IF live(1) THEN Result(cl.store[keys[1]][1].value)
                          ELSE Result(None),
                  store |-> cl.store]
          [] o = "delete" ->
                 [res |-> Result(PyBool(live(1))),
                  store |-> [cl.store EXCEPT ![keys[1]] = <<>>]]
          [] o = "get_multi" ->
                 [res |-> Result(PyDict({<<keys[i], cl.store[keys[i]][1].value>> :
                                            i \in {j \in all : live(j)}})),
                  store |-> cl.store]
          [] o = "set_multi" ->
                 [res |-> Result(PyList(<<>>)),
                  store |-> [k \in DOMAIN cl.store |->
                               IF \E i \in all : keys[i] = k
                               THEN entry(c.data[CHOOSE i \in all : keys[i] = k][2])
                               ELSE cl.store[k]]]
          [] o = "delete_multi" ->
                 [res |-> Result(PyBool(\A i \in all : live(i))),
                  store |-> [k \in DOMAIN cl.store |->
                               IF \E i \in all : keys[i] = k THEN <<>> ELSE cl.store[k]]]

\* What the servers may do: serve the operation, or fail it with a
\* server-level fault or another pylibmc fault, storing nothing.
ClusterOutcomes(c, keys, exp, cl) ==
    {Served(backing_operation(c), c, keys, exp, cl)} \cup
    {[res |-> Fault(e), store |-> cl.store] : e \in {ServerError, MemcachedError}}

\* The backing operation of thread t's call, invoked on the servers at
\* their clock's time.
invoke_cluster(t) ==
    /\ pc[t] = "acquired"
    /\ LET exp == get_memcache_timeout(call[t].timeout, config.default_timeout,
                                       cluster.now)
       IN  \E o \in ClusterOutcomes(call[t], run[t].keys, exp, cluster) :
             /\ run' = [run EXCEPT ![t] = Invoked(run[t], call[t], cluster.now, o.res)]
             /\ pc' = [pc EXCEPT ![t] =
                         AfterTry(Invoked(run[t], call[t], cluster.now, o.res).out)]
             /\ local' = after_except(local, t, o.res.exc)
             /\ cluster' = [cluster EXCEPT !.store = o.store]
    /\ UNCHANGED <<config, clients, call, norm>>

\* A second passes.
tick ==
    /\ cluster.now < MaxNow
    /\ cluster' = [cluster EXCEPT !.now = @ + 1]
    /\ UNCHANGED <<config, local, clients, pc, call, run, norm>>

NextCluster ==
    \/ \E t \in {"t1"} :
        \/ add(t)
        \/ get(t)
        \/ set(t)
        \/ delete(t)
        \/ get_many(t)
        \/ set_many(t)
        \/ delete_many(t)
        \/ cache(t)
        \/ invoke_cluster(t)
    \/ tick

SpecCluster == Init /\ [][NextCluster]_vars

\* The step of thread t in which its backing operation returns.
Serves(t) == pc[t] = "acquired" /\ pc'[t] = "done" /\ run'[t].fault = ""

\* C12: when the servers serve it, add stores its value only when no live
\* entry is under the key and then returns true; with a live entry it
\* returns false and leaves every entry as it was; and a get served while
\* an entry written by add is live returns that add's value.
C12_AddOnlyWhenAbsent ==
    [][\A t \in Threads :
         Serves(t) =>
             LET k == run[t].keys[1]
                 e == cluster.store[k]
             IN  /\ call[t].op = "add" =>
                        IF Live(e, cluster.now)
                        THEN /\ run'[t].out.value = PyBool(FALSE)
                             /\ cluster'.store = cluster.store
                        ELSE /\ run'[t].out.value = PyBool(TRUE)
                             /\ cluster'.store[k] # <<>>
                             /\ cluster'.store[k][1].value = call[t].value
                             /\ cluster'.store[k][1].op = "add"
                 /\ call[t].op = "get" /\ Live(e, cluster.now) /\ e[1].op = "add" =>
                        run'[t].out.value = e[1].value]_vars

\* An add that was served and refused: the entry of an earlier add, with
\* another value, is still there.
C12_Witness ==
    \E t \in Threads :
        /\ Ended(t) /\ call[t].op = "add" /\ run[t].fault = "" /\ run[t].invoked = 1
        /\ run[t].out.value = PyBool(FALSE)
        /\ cluster.store[run[t].keys[1]] # <<>>
        /\ cluster.store[run[t].keys[1]][1].op = "add"
        /\ cluster.store[run[t].keys[1]][1].value # call[t].value

\* C13: a served set with timeout 0 stores its value, and every get served
\* while that entry is the last write under the key returns the value,
\* at whatever second of the servers' clock.
C13_ZeroTimeoutRoundTrip ==
    [][\A t \in Threads :
         Serves(t) =>
             LET k == run[t].keys[1]
                 e == cluster.store[k]
             IN  /\ call[t].op = "set" /\ call[t].timeout = PyNum(0) =>
                        /\ run'[t].out.value = PyBool(TRUE)
                        /\ cluster'.store[k] # <<>>
                        /\ cluster'.store[k][1].value = call[t].value
                        /\ cluster'.store[k][1].op = "set"
                        /\ cluster'.store[k][1].timeout = PyNum(0)
                 /\ /\ call[t].op = "get"
                    /\ e # <<>> /\ e[1].op = "set" /\ e[1].timeout = PyNum(0)
                    => run'[t].out.value = e[1].value]_vars

\* A get returned the value a set with timeout 0 stored longer ago than
\* the default timeout and than any other timeout of the model.
C13_Witness ==
    \E t \in Threads :
        LET e == cluster.store[make_key("a")]
        IN  /\ Ended(t) /\ call[t].op = "get" /\ run[t].fault = "" /\ run[t].invoked = 1
            /\ e # <<>> /\ e[1].op = "set" /\ e[1].timeout = PyNum(0)
            /\ run[t].out.value = e[1].value
            /\ (cluster.now - e[1].at) * Scale > config.default_timeout
            /\ cluster.now - e[1].at > 1

\* C14: a served get_many returns the mapping from exactly those requested
\* keys that have a live entry to the values of their entries: no key
\* without a live entry, and no key that was not requested.
C14_GetManyExactlyStored ==
    [][\A t \in Threads :
         Serves(t) /\ call[t].op = "get_many" =>
             LET requested == {call[t].keys[i] : i \in 1..Len(call[t].keys)}
                 stored == {k \in requested :
                              Live(cluster.store[make_key(k)], cluster.now)}
             IN  /\ run'[t].out.kind = "return"
                 /\ run'[t].out.value =
                        PyDict({<<k, cluster.store[make_key(k)][1].value>> : k \in stored})
                 /\ cluster'.store = cluster.store]_vars

\* A get_many of one key returned it and its value alone, while another
\* key is stored too.
C14_Witness ==
    \E t \in Threads :
        /\ Ended(t) /\ call[t].op = "get_many" /\ run[t].fault = "" /\ run[t].invoked = 1
        /\ Live(cluster.store[make_key("a")], cluster.now)
        /\ Live(cluster.store[make_key("b")], cluster.now)
        /\ call[t].keys = <<"b">>
        /\ run[t].out.value = PyDict({<<"b", PyInt(5)>>})

----------------------------------------------------------------------------
(* The claims about the configuration and the order of a call's steps. *)

\* Client cl is what the configuration cfg describes: its servers, its
\* protocol, its credentials when it has both, and its behaviors when it
\* has options.
BuiltFrom(cl, cfg) ==
    /\ cl.servers = cfg.servers
    /\ cl.binary = cfg.binary
    /\ cl.auth = IF cfg.username # None /\ cfg.password # None
                 THEN <<cfg.username.s, cfg.password.s>> ELSE <<>>
    /\ cl.behaviors = IF PyTruthy(cfg.options) THEN cfg.options ELSE None

\* C15: no step, of a cache call or of a client's construction, changes
\* the configuration; every client constructed, by any thread at any time,
\* is built from its values and stays as built; and add and set hand the
\* configured minimum compress length to the backing client.
C15_ConfigurationFixed ==
    [][/\ config' = config
       /\ \A h \in 1..Len(clients') : BuiltFrom(clients'[h], config)
       /\ \A h \in 1..Len(clients) : clients'[h] = clients[h]
       /\ \A t \in Threads :
            run'[t].compress # <<>> => run'[t].compress = <<config.min_compress_len>>]_vars

\* Two threads have each built a client with the credentials and the
\* behaviors, the second after calls of the first, and an add or a set has
\* handed over the minimum compress length.
C15_Witness ==
    /\ Len(clients) >= 2
    /\ clients[1].builtBy # clients[2].builtBy
    /\ clients[1].auth = <<"user", "secret">> /\ clients[2].auth = <<"user", "secret">>
    /\ clients[2].behaviors = Behaviors
    /\ \E t \in Threads : Ended(t) /\ run[t].compress = <<1>>

\* Whether the steps of thread t's call include step s.
Did(t, s) == \E i \in 1..Len(run[t].steps) : run[t].steps[i] = s

\* C16: a client in a thread's slot, or returned to a call, has the
\* options as its behaviors whenever there are options; and a call in
\* which setting the behaviors raised leaves the slot empty and has no
\* client and no backing operation.
C16_StoredWhenConfigured ==
    \A t \in Threads :
        /\ PyTruthy(config.options) =>
               /\ SlotOf(t) # <<>> => clients[SlotOf(t)[1]].behaviors = config.options
               /\ run[t].client # <<>> =>
                      /\ clients[run[t].client[1]].behaviors = config.options
                      /\ run[t].client = SlotOf(t)
        /\ Ended(t) /\ Did(t, "behaviors") /\ run[t].fault # "" /\ run[t].invoked = 0 =>
               /\ SlotOf(t) = <<>>
               /\ run[t].client = <<>>
               /\ \A h \in 1..Len(clients) : clients[h].builtBy # t

\* One thread's call ended when setting the behaviors raised, its slot
\* empty; the other thread holds a client with the behaviors and has
\* invoked the backing operation on it.
C16_Witness ==
    \E t, u \in Threads :
        /\ Ended(t) /\ Did(t, "behaviors") /\ run[t].fault = MemcachedError
        /\ run[t].invoked = 0 /\ SlotOf(t) = <<>>
        /\ SlotOf(u) # <<>> /\ clients[SlotOf(u)[1]].behaviors = Behaviors
        /\ run[u].client = SlotOf(u) /\ run[u].invoked = 1

\* The place of a step in the order of a call.
Rank(s) ==
    CASE s = "make_key" -> 1
      [] s = "_cache" -> 2
      [] s = "Client" -> 3
      [] s = "behaviors" -> 4
      [] s = "_get_memcache_timeout" -> 5
      [] s = "backend" -> 6

\* C17: the steps of an add or a set happen in the order key resolution,
\* client acquisition (with the construction on first use), timeout,
\* backing operation, each at most once and none without those before it;
\* the backing operation gets the made key, never the caller's key; and a
\* call whose key resolution failed has done nothing else: it has acquired,
\* built and contacted no client.
C17_StepOrder ==
    \A t \in Threads :
        call[t].op \in {"add", "set"} =>
            LET steps == run[t].steps
            IN  /\ \A i, j \in 1..Len(steps) :
                       i < j => Rank(steps[i]) < Rank(steps[j])
                /\ steps # <<>> => steps[1] = "make_key"
                /\ Did(t, "_get_memcache_timeout") => Did(t, "_cache")
                /\ Did(t, "backend") => Did(t, "_get_memcache_timeout")
                /\ run[t].invoked > 0 =>
                       /\ Did(t, "backend")
                       /\ run[t].keys = <<make_key(call[t].key)>>
                       /\ run[t].keys[1] # call[t].key
                       /\ run[t].client # <<>>
                /\ run[t].fault = KeyFunctionError =>
                       /\ steps = <<"make_key">>
                       /\ run[t].client = <<>> /\ run[t].invoked = 0
                       /\ run[t].out = Raised(KeyFunctionError, <<>>)
                       /\ \A h \in 1..Len(clients) :
                              clients[h].builtBy = t => SlotOf(t) = <<h>>

\* An add that built its client on first use and invoked the backing
\* operation, and a set of another thread whose key resolution failed
\* before that thread had any client.
C17_Witness ==
    \E t, u \in Threads :
        /\ Ended(t) /\ call[t].op = "add" /\ run[t].invoked = 1
        /\ run[t].steps = <<"make_key", "_cache", "Client", "behaviors",
                            "_get_memcache_timeout", "backend">>
        /\ run[t].keys = <<":1:a">>
        /\ Ended(u) /\ call[u].op = "set" /\ run[u].fault = KeyFunctionError
        /\ run[u].steps = <<"make_key">> /\ SlotOf(u) = <<>>

----------------------------------------------------------------------------
(* One thread alone, whose client construction does not fail for ever. *)

\* The _cache property constructs, configures and stores a client.
BuildSucceeds(t) == cache(t) /\ local[Slot(t)] = <<>> /\ local'[Slot(t)] # <<>>

\* Of the constructions a thread attempts again and again, one succeeds.
SpecRetry == Init /\ [][NextSolo]_vars /\ SF_vars(BuildSucceeds("t1"))

\* C18: a call in which constructing or configuring the client raised a
\* contained fault returns its safe default with one log entry and leaves
\* the slot empty; with an empty slot, every call that reaches the _cache
\* property constructs a client again; a client once stored stays; and so
\* a thread that reaches the property again and again, and whose
\* constructions do not fail for ever, comes to hold a client.
C18_BuildRetried ==
    /\ [][\A t \in Threads :
            /\ Ended(t)' /\ Did(t, "Client")' /\ run'[t].invoked = 0
               /\ run'[t].fault \in CacheFaults =>
                   /\ run'[t].out.kind = "return"
                   /\ run'[t].out.value = SafeDefault(call'[t])
                   /\ Len(run'[t].out.logs) = 1
                   /\ SlotOf(t)' = <<>>
                   /\ clients' = clients
            /\ pc[t] = "resolved" /\ pc'[t] # "resolved" /\ SlotOf(t) = <<>> =>
                   Did(t, "Client")'
            /\ SlotOf(t) # <<>> => SlotOf(t)' = SlotOf(t)]_vars
    /\ \A t \in Threads :
           []<>(pc[t] = "resolved") => <>(SlotOf(t) # <<>>)

\* The first call of a thread ended when constructing its client raised a
\* pylibmc fault: it returned its default, and the slot is empty.
C18_Witness ==
    \E t \in Threads :
        /\ Ended(t) /\ call[t].op = "get" /\ call[t].default = PyStr("d")
        /\ run[t].steps = <<"make_key", "_cache", "Client">>
        /\ run[t].fault = MemcachedError
        /\ run[t].out.kind = "return" /\ run[t].out.value = PyStr("d")
        /\ SlotOf(t) = <<>> /\ clients = <<>>

----------------------------------------------------------------------------
(* The claims about what a contained failure leaves behind. *)

\* What thread t's call returns when healthy servers holding cl serve it.
ServedValue(t, cl) ==
    Success(call[t],
            Served(backing_operation(call[t]), call[t], run[t].keys,
                   get_memcache_timeout(call[t].timeout, config.default_timeout, cl.now),
                   cl).res.value)

\* C19 as stated: after a call whose failure was contained, the thread's
\* slot is what it was before the call, and the configuration is
\* unchanged; and a call the servers serve returns their result.
C19_NoTrace ==
    [][\A t \in Threads :
         /\ config' = config
         /\ Contained(t)' =>
                SlotOf(t)' = IF Did(t, "Client")' THEN <<>> ELSE run'[t].client
         /\ Serves(t) =>
                run'[t].out = Returned(ServedValue(t, cluster), <<>>)]_vars

\* C19 as amended: the step in which a failure is contained changes no
\* slot, no client, no entry of the servers and not the configuration, so
\* the slot holds what the call's acquisition left there: the client the
\* call ran on (built by this very call when it was the thread's first),
\* or nothing when the construction itself failed; and a call the servers
\* serve returns their result, whatever failed before it.
C19_HandlerLeavesNoTrace ==
    [][\A t \in Threads :
         /\ config' = config
         /\ ~Contained(t) /\ Contained(t)' =>
                /\ local' = local
                /\ clients' = clients
                /\ cluster' = cluster
                /\ SlotOf(t)' = run'[t].client
         /\ Serves(t) =>
                run'[t].out = Returned(ServedValue(t, cluster), <<>>)]_vars

\* The first call of a thread built and stored its client, and then the
\* backing operation failed: the call returned its default, and the slot
\* holds the new client.
C19_Witness ==
    \E t \in Threads :
        /\ Contained(t) /\ run[t].invoked = 1 /\ Did(t, "Client")
        /\ run[t].out.value = SafeDefault(call[t])
        /\ SlotOf(t) # <<>> /\ SlotOf(t) = run[t].client

====
